---- MODULE Spec2Model ----
(***************************************************************************)
(* Ticket mutation engine of helpdesk-mini-backend: the Express handlers   *)
(* of src/routes/tickets.js over the Mongoose Ticket model                 *)
(* (src/unnamed/part_001), the Timeline and Comment collections, and the   *)
(* idempotency middleware of src/middleware/auth.js as it is mounted by    *)
(* the application (src/unnamed/part_000).                                 *)
(*                                                                         *)
(* Time is counted in hours.  A handler is a sequence of steps, one per    *)
(* stretch of code between two awaits that touch the stores; the steps of  *)
(* different requests interleave.                                          *)
(***************************************************************************)
EXTENDS Integers, Sequences, FiniteSets, TLC

(***************************************************************************)
(* Bounds of the model.                                                    *)
(***************************************************************************)
MaxTickets == 1
MaxEvents == 3

(***************************************************************************)
(* Values.                                                                 *)
(***************************************************************************)
\* JavaScript undefined / null of a string-valued place, and an unset Date.
Undefined == "<undefined>"
Null == "<null>"
Unset == -1

\* The user directory (User collection): identity -> role.  All are active.
Role == [u1 |-> "user", ag |-> "agent", ad |-> "admin"]
Users == DOMAIN Role
\* A request without a valid bearer credential.
NoAuth == "<noauth>"
Actors == Users \cup {NoAuth}

NoKey == "<nokey>"

Statuses == {"open", "in_progress", "pending", "resolved", "closed"}
Priorities == {"low", "medium", "high", "urgent"}
Categories == {"technical", "billing", "general", "feature_request"}

Has(body, k) == k \in DOMAIN body
Field(body, k) == IF k \in DOMAIN body THEN body[k] ELSE Undefined
\* JavaScript truthiness of a string-valued place.
Truthy(v) == v \notin {Undefined, Null, ""}

(***************************************************************************)
(* Ticket model: src/unnamed/part_001                                      *)
(***************************************************************************)
\* sla.responseTime default: priorityMap[this.priority] || 24
ResponseHours(p) ==
  CASE p = "low" -> 48 [] p = "medium" -> 24 [] p = "high" -> 8
    [] p = "urgent" -> 2 [] OTHER -> 24

\* sla.resolutionTime default: priorityMap[this.priority] || 72
ResolutionHours(p) ==
  CASE p = "low" -> 168 [] p = "medium" -> 72 [] p = "high" -> 24
    [] p = "urgent" -> 8 [] OTHER -> 72

\* A version that starts at 1.
NewTicketVersionOne(id, title, description, priority, category, creator, t) ==
  [id |-> id, title |-> title, description |-> description,
   status |-> "open", priority |-> priority, category |-> category,
   createdBy |-> creator, assignedTo |-> Undefined, tags |-> {},
   responseTime |-> ResponseHours(priority),
   resolutionTime |-> ResolutionHours(priority),
   responseDeadline |-> Unset, resolutionDeadline |-> Unset,
   isResponseBreached |-> FALSE, isResolutionBreached |-> FALSE,
   version |-> 1, createdAt |-> t, updatedAt |-> t,
   firstResponseAt |-> Unset, resolvedAt |-> Unset, closedAt |-> Unset]

\* new Ticket({title, description, priority, category, createdBy}) with the
\* schema defaults applied at time t.
NewTicket(id, title, description, priority, category, creator, t) ==
  [id |-> id, title |-> title, description |-> description,
   status |-> "open", priority |-> priority, category |-> category,
   createdBy |-> creator, assignedTo |-> Undefined, tags |-> {},
   responseTime |-> ResponseHours(priority),
   resolutionTime |-> ResolutionHours(priority),
   responseDeadline |-> Unset, resolutionDeadline |-> Unset,
   isResponseBreached |-> FALSE, isResolutionBreached |-> FALSE,
   version |-> 0, createdAt |-> t, updatedAt |-> t,
   firstResponseAt |-> Unset, resolvedAt |-> Unset, closedAt |-> Unset]

\* A validation without the enums.
ValidDocNoEnum(d) ==
  /\ d.title \notin {Undefined, Null, ""}
  /\ d.description \notin {Undefined, Null, ""}

\* Schema validation of the paths a save writes (enum, required).
ValidDoc(d) ==
  /\ d.title \notin {Undefined, Null, ""}
  /\ d.description \notin {Undefined, Null, ""}
  /\ d.status \in Statuses
  /\ d.priority \in Priorities
  /\ d.category \in Categories

\* The name of the first invalid path, for the error handler.
InvalidPath(d) ==
  CASE d.title \in {Undefined, Null, ""} -> "title"
    [] d.description \in {Undefined, Null, ""} -> "description"
    [] d.status \notin Statuses -> "status"
    [] d.priority \notin Priorities -> "priority"
    [] OTHER -> "category"

\* Both deadlines computed from sla.responseTime.
HookDeadlinesResponseOnly(d, isNew, t) ==
  IF isNew
    THEN [d EXCEPT !.responseDeadline = t + d.responseTime,
                   !.resolutionDeadline = t + d.responseTime]
    ELSE d

\* ticketSchema.pre('save'): l is the in-memory document [doc, mod] with mod
\* the set of modified paths; the result is the document the save writes.
HookDeadlines(d, isNew, t) ==
  IF isNew
    THEN [d EXCEPT !.responseDeadline = t + d.responseTime,
                   !.resolutionDeadline = t + d.resolutionTime]
    ELSE d

\* A version that is incremented only by a save that modifies the status.
HookVersionStatusOnly(l, isNew, t) ==
  IF "status" \in l.mod /\ ~isNew
    THEN [doc |-> [l.doc EXCEPT !.updatedAt = t, !.version = @ + 1],
          mod |-> l.mod \cup {"updatedAt", "version"}]
    ELSE l

HookVersion(l, isNew, t) ==
  IF l.mod # {} /\ ~isNew
    THEN [doc |-> [l.doc EXCEPT !.updatedAt = t, !.version = @ + 1],
          mod |-> l.mod \cup {"updatedAt", "version"}]
    ELSE l

\* Milestones that every resolving or closing save stamps anew.
HookMilestonesOverwrite(l, isNew, t) ==
  IF "status" \in l.mod
    THEN LET r == l.doc.status = "resolved"
             c == l.doc.status = "closed"
         IN  [doc |-> [l.doc EXCEPT !.resolvedAt = IF r THEN t ELSE @,
                                    !.closedAt = IF c THEN t ELSE @],
              mod |-> l.mod \cup (IF r THEN {"resolvedAt"} ELSE {})
                            \cup (IF c THEN {"closedAt"} ELSE {})]
    ELSE l

HookMilestones(l, isNew, t) ==
  IF "status" \in l.mod
    THEN LET r == l.doc.status = "resolved" /\ l.doc.resolvedAt = Unset
             c == l.doc.status = "closed" /\ l.doc.closedAt = Unset
         IN  [doc |-> [l.doc EXCEPT !.resolvedAt = IF r THEN t ELSE @,
                                    !.closedAt = IF c THEN t ELSE @],
              mod |-> l.mod \cup (IF r THEN {"resolvedAt"} ELSE {})
                            \cup (IF c THEN {"closedAt"} ELSE {})]
    ELSE l

PreSave(l, isNew, t) ==
  HookMilestones(
    HookVersion([doc |-> HookDeadlines(l.doc, isNew, t), mod |-> l.mod],
                isNew, t),
    isNew, t)

\* A breach check that does not look at the milestones.
CheckSLABreachesNoMilestone(d, t) ==
  [d EXCEPT
     !.isResponseBreached = IF t > d.responseDeadline THEN TRUE ELSE @,
     !.isResolutionBreached = IF t > d.resolutionDeadline THEN TRUE ELSE @]

\* ticket.checkSLABreaches() at time t, on the in-memory document.
CheckSLABreaches(d, t) ==
  [d EXCEPT
     !.isResponseBreached =
        IF d.firstResponseAt = Unset /\ t > d.responseDeadline THEN TRUE ELSE @,
     !.isResolutionBreached =
        IF d.resolvedAt = Unset /\ t > d.resolutionDeadline THEN TRUE ELSE @]

\* ticket[k] = v on a Mongoose document: the path is marked modified when
\* the value differs from the one the document holds.
SetPath(l, k, v) ==
  [doc |-> [l.doc EXCEPT ![k] = v],
   mod |-> IF l.doc[k] # v THEN l.mod \cup {k} ELSE l.mod]

\* What document.save() leaves in the store: the modified paths are $set on
\* the stored document (filter {_id} only), the others stay as stored.
Written(stored, d, mod) ==
  [f \in DOMAIN stored |-> IF f \in mod THEN d[f] ELSE stored[f]]

(***************************************************************************)
(* Idempotency cache: src/middleware/auth.js lines 70-128                  *)
(***************************************************************************)
\* 24 * 60 * 60 * 1000 ms, in hours.
TTL == 24

\* `${userKey}:${idempotencyKey}`, userKey being req.user._id or 'anonymous'.
StoreKey(user, key) ==
  <<IF user # Undefined THEN user ELSE "anonymous", key>>

\* req.user as idempotencyMiddleware sees it.  The application mounts the
\* middleware with app.use before the routers, and the routers call
\* authenticate themselves (router.use(authenticate)), so req.user is not
\* yet set when the middleware runs.
MountedUser(actor) == Undefined

Method(op) ==
  CASE op \in {"get", "list", "breached"} -> "GET"
    [] op = "patch" -> "PATCH"
    [] OTHER -> "POST"

\* A middleware that applies to every method.
KeyedAnyMethod(r) == r.key # NoKey

\* The middleware applies: a POST carrying an idempotency-key header.
Keyed(r) == Method(r.op) = "POST" /\ r.key # NoKey

\* A lookup under the raw header value instead of the store key.
CacheHitRawKey(store, sk) == <<sk[2]>> \in DOMAIN store

\* idempotencyStore.has(storeKey)
CacheHit(store, sk) == sk \in DOMAIN store

\* idempotencyStore.set(storeKey, {statusCode, body, timestamp})
Put(store, sk, v) == [k \in DOMAIN store \cup {sk} |-> IF k = sk THEN v ELSE store[k]]

\* An expiry of one hour.
ExpiredAfterAnHour(v, t) == v.timestamp < t - 1

\* The hourly sweep: entries with timestamp < now - 24h are deleted.
Expired(v, t) == v.timestamp < t - TTL
Swept(store, t) == [k \in {x \in DOMAIN store : ~Expired(store[x], t)} |-> store[k]]

(***************************************************************************)
(* State                                                                   *)
(***************************************************************************)
VARIABLES
  now,       \* the clock, in hours
  tickets,   \* Ticket collection: sequence of documents, _id = index
  comments,  \* Comment collection, in creation order
  timeline,  \* Timeline collection, in creation order
  idem,      \* idempotencyStore: store key -> [statusCode, body, timestamp]
  pc,        \* per request slot: the handler step it is at
  req,       \* per request slot: the request being handled
  loc,       \* per request slot: the handler's local variables
  resp,      \* per request slot: the response sent
  snap       \* per request slot: the stores as they were when it arrived

vars == <<now, tickets, comments, timeline, idem, pc, req, loc, resp, snap>>

Workers == {1, 2}

NoDoc == <<>>
NoReq == [op |-> "none", actor |-> NoAuth, key |-> NoKey, tid |-> 0, body |-> <<>>]
NoResp == [status |-> 0, body |-> [code |-> "", field |-> "", data |-> <<>>],
           cached |-> FALSE]
NoLoc == [doc |-> NoDoc, mod |-> {}, events |-> <<>>, wrapped |-> FALSE,
          count |-> 0, comment |-> <<>>, ids |-> <<>>]

Body(code, field, data) == [code |-> code, field |-> field, data |-> data]
Success(data) == Body("OK", "", data)
Error(code) == Body(code, "", <<>>)
FieldError(code, field) == Body(code, field, <<>>)

Exists(tid) == tid \in DOMAIN tickets

Init ==
  /\ now = 0
  /\ tickets = <<>>
  /\ comments = <<>>
  /\ timeline = <<>>
  /\ idem = <<>>
  /\ pc = [w \in Workers |-> "idle"]
  /\ req = [w \in Workers |-> NoReq]
  /\ loc = [w \in Workers |-> NoLoc]
  /\ resp = [w \in Workers |-> NoResp]
  /\ snap = [w \in Workers |-> [tickets |-> <<>>, events |-> 0, comments |-> 0]]

(***************************************************************************)
(* Responding                                                              *)
(***************************************************************************)
\* A response that is sent without being stored.
RespondUnstored(w, status, body) ==
  /\ resp' = [resp EXCEPT ![w] = [status |-> status, body |-> body, cached |-> FALSE]]
  /\ pc' = [pc EXCEPT ![w] = "done"]
  /\ idem' = idem

\* res.status(status).json(body) of a handler (or of the error handler): when
\* the idempotency middleware wrapped res.json, the response is stored first.
Respond(w, status, body) ==
  /\ resp' = [resp EXCEPT ![w] = [status |-> status, body |-> body, cached |-> FALSE]]
  /\ pc' = [pc EXCEPT ![w] = "done"]
  /\ idem' = IF loc[w].wrapped
               THEN Put(idem, StoreKey(MountedUser(req[w].actor), req[w].key),
                        [statusCode |-> status, body |-> body, timestamp |-> now])
               ELSE idem

\* The route of the tickets router that handles a request.  The router tries
\* its routes in the order of their registration: POST /bulk/assign matches
\* the pattern of router.post('/:id/assign'), registered before
\* router.post('/bulk/assign'), with req.params.id = 'bulk'; that handler
\* answers or hands an error to next(), so the later route is never tried.
Handler(op) == IF op = "bulk" THEN "assign" ELSE op

\* authorize(...roles) of the routes that carry it.
RouteRoles(op) ==
  CASE op \in {"assign", "status", "priority", "breached"} -> {"agent", "admin"}
    [] op = "bulk" -> {"admin"}
    [] OTHER -> {"user", "agent", "admin"}

\* A request arrives in slot w: idempotencyMiddleware, then the router's
\* authenticate and the route's authorize, then the handler is entered.
Receive(w, r) ==
  /\ pc[w] \in {"idle", "done"}
  /\ req' = [req EXCEPT ![w] = r]
  /\ snap' = [snap EXCEPT ![w] = [tickets |-> tickets, events |-> Len(timeline),
                                  comments |-> Len(comments)]]
  /\ UNCHANGED <<now, tickets, comments, timeline>>
  /\ LET sk == StoreKey(MountedUser(r.actor), r.key)
         entry(status, body, cached) ==
           /\ resp' = [resp EXCEPT ![w] = [status |-> status, body |-> body,
                                           cached |-> cached]]
           /\ pc' = [pc EXCEPT ![w] = "done"]
     IN  IF Keyed(r) /\ CacheHit(idem, sk)
           THEN /\ entry(idem[sk].statusCode, idem[sk].body, TRUE)
                /\ loc' = [loc EXCEPT ![w] = NoLoc]
                /\ UNCHANGED idem
           ELSE /\ loc' = [loc EXCEPT ![w] = [NoLoc EXCEPT !.wrapped = Keyed(r)]]
                /\ LET store(status, body) ==
                         idem' = IF Keyed(r)
                                   THEN Put(idem, sk, [statusCode |-> status,
                                                       body |-> body,
                                                       timestamp |-> now])
                                   ELSE idem
                   IN  IF r.actor = NoAuth
                         THEN entry(401, Error("NO_TOKEN"), FALSE)
                              /\ store(401, Error("NO_TOKEN"))
                         ELSE IF Role[r.actor] \notin RouteRoles(Handler(r.op))
                           THEN entry(403, Error("FORBIDDEN"), FALSE)
                                /\ store(403, Error("FORBIDDEN"))
                           ELSE /\ pc' = [pc EXCEPT ![w] = Handler(r.op)]
                                /\ UNCHANGED <<resp, idem>>

(***************************************************************************)
(* Steps shared by the handlers                                            *)
(***************************************************************************)
Event(tid, user, action, field, t) ==
  [ticket |-> tid, user |-> user, action |-> action, field |-> field, at |-> t]

\* await ticket.save(): validation, the pre-save hook, the write.
Save(w) ==
  /\ pc[w] = "save"
  /\ LET l == loc[w] IN
     IF ~ValidDoc(l.doc)
       THEN /\ Respond(w, 400, FieldError("VALIDATION_ERROR", InvalidPath(l.doc)))
            /\ UNCHANGED <<now, tickets, comments, timeline, req, loc, snap>>
       ELSE LET s == PreSave([doc |-> l.doc, mod |-> l.mod], FALSE, now) IN
            /\ tickets' = IF s.mod # {}
                            THEN [tickets EXCEPT ![l.doc.id] = Written(@, s.doc, s.mod)]
                            ELSE tickets
            /\ loc' = [loc EXCEPT ![w].doc = s.doc, ![w].mod = {}]
            /\ pc' = [pc EXCEPT ![w] = IF l.events # <<>> THEN "emit" ELSE "reply"]
            /\ UNCHANGED <<now, comments, timeline, idem, req, resp, snap>>

\* A timeline write that keeps one entry per ticket (an upsert).
CreateTimelineEntryUpsert(log, tid, user, action, field, t) ==
  Append(SelectSeq(log, LAMBDA e : e.ticket # tid), Event(tid, user, action, field, t))

\* createTimelineEntry(ticketId, userId, action, description, details)
CreateTimelineEntry(log, tid, user, action, field, t) ==
  Append(log, Event(tid, user, action, field, t))

\* One await createTimelineEntry(...) of the handler.
Emit(w) ==
  /\ pc[w] = "emit"
  /\ LET e == Head(loc[w].events) IN
     timeline' = CreateTimelineEntry(timeline, e.ticket, req[w].actor, e.action,
                                     e.field, now)
  /\ loc' = [loc EXCEPT ![w].events = Tail(@)]
  /\ pc' = [pc EXCEPT ![w] = IF Len(loc[w].events) > 1 THEN "emit" ELSE "reply"]
  /\ UNCHANGED <<now, tickets, comments, idem, req, resp, snap>>

\* Timeline.create rejects (the store fails the write): the error leaves
\* createTimelineEntry and the handler's try block, and next(error) hands it
\* to the error handler, which answers 500 INTERNAL_ERROR.  The entries the
\* handler had still to write stay unwritten.
EmitFail(w) ==
  /\ pc[w] = "emit"
  /\ Respond(w, 500, Error("INTERNAL_ERROR"))
  /\ UNCHANGED <<now, tickets, comments, timeline, req, loc, snap>>

\* The success response of each handler.
SuccessStatus(op) == IF op \in {"create", "comment"} THEN 201 ELSE 200
SuccessData(op, l) ==
  CASE op = "comment" -> [comment |-> l.comment]
    [] op = "bulk" -> [modifiedCount |-> l.count]
    [] OTHER -> [ticket |-> l.doc]

Reply(w) ==
  /\ pc[w] = "reply"
  /\ Respond(w, SuccessStatus(req[w].op), Success(SuccessData(req[w].op, loc[w])))
  /\ UNCHANGED <<now, tickets, comments, timeline, req, loc, snap>>

\* Time passes, up to one of the instants the model samples.
Tick(instants) ==
  /\ \E t \in instants : t > now /\ now' = t
  /\ UNCHANGED <<tickets, comments, timeline, idem, pc, req, loc, resp, snap>>

\* The setInterval sweep of the idempotency store.
Sweep ==
  /\ idem' = Swept(idem, now)
  /\ idem' # idem
  /\ UNCHANGED <<now, tickets, comments, timeline, pc, req, loc, resp, snap>>

(***************************************************************************)
(* Handlers: src/routes/tickets.js                                         *)
(***************************************************************************)
Unchanged(w) == UNCHANGED <<now, tickets, comments, timeline, req, loc, snap>>

NotFound(w) == Respond(w, 404, Error("TICKET_NOT_FOUND")) /\ Unchanged(w)
Forbidden(w) == Respond(w, 403, Error("FORBIDDEN")) /\ Unchanged(w)

\* The handler goes on to ticket.save() with local document l and the
\* timeline entries it will write afterwards.
ToSave(w, l, events) ==
  /\ loc' = [loc EXCEPT ![w].doc = l.doc, ![w].mod = l.mod, ![w].events = events]
  /\ pc' = [pc EXCEPT ![w] = "save"]
  /\ UNCHANGED <<now, tickets, comments, timeline, idem, req, resp, snap>>

Loaded(tid) == [doc |-> tickets[tid], mod |-> {}]

\* POST /api/tickets: validation, Ticket.create (schema defaults, validation,
\* pre-save hook, insert); the 'created' timeline entry follows.  The document
\* is constructed and saved within the one Ticket.create call, so createdAt
\* and the hook's new Date() are the same instant of the model's clock.
Create(w) ==
  /\ pc[w] = "create"
  /\ LET b == req[w].body
         d == NewTicket(Len(tickets) + 1, b.title, b.description,
                        IF Truthy(Field(b, "priority")) THEN b.priority ELSE "medium",
                        IF Truthy(Field(b, "category")) THEN b.category ELSE "general",
                        req[w].actor, now)
     IN  IF ~Truthy(Field(b, "title"))
           THEN Respond(w, 400, FieldError("FIELD_REQUIRED", "title")) /\ Unchanged(w)
           ELSE IF ~Truthy(Field(b, "description"))
             THEN Respond(w, 400, FieldError("FIELD_REQUIRED", "description"))
                  /\ Unchanged(w)
             ELSE IF ~ValidDoc(d)
               THEN Respond(w, 400, FieldError("VALIDATION_ERROR", InvalidPath(d)))
                    /\ Unchanged(w)
               ELSE LET s == PreSave([doc |-> d, mod |-> {}], TRUE, now) IN
                    /\ tickets' = Append(tickets, s.doc)
                    /\ loc' = [loc EXCEPT ![w].doc = s.doc,
                                          ![w].events = <<[ticket |-> d.id,
                                                           action |-> "created",
                                                           field |-> ""]>>]
                    /\ pc' = [pc EXCEPT ![w] = "emit"]
                    /\ UNCHANGED <<now, comments, timeline, idem, req, resp, snap>>

\* GET /api/tickets/:id
GetTicket(w) ==
  /\ pc[w] = "get"
  /\ LET r == req[w] IN
     IF ~Exists(r.tid) THEN NotFound(w)
     ELSE IF Role[r.actor] = "user" /\ tickets[r.tid].createdBy # r.actor
       THEN Forbidden(w)
       ELSE /\ Respond(w, 200, Success([ticket |-> CheckSLABreaches(tickets[r.tid], now)]))
            /\ Unchanged(w)

\* GET /api/tickets (first page, the breached filter or none): the tickets
\* the actor may see, each with checkSLABreaches() applied.
Visible(actor) ==
  SelectSeq(tickets, LAMBDA d : Role[actor] # "user" \/ d.createdBy = actor)

MapBreaches(docs, t) == [i \in DOMAIN docs |-> CheckSLABreaches(docs[i], t)]

\* breached === 'true' && req.user.role !== 'user'
BreachedFilter(r) ==
  Has(r.body, "breached") /\ r.body.breached = "true" /\ Role[r.actor] # "user"

\* Ticket.find(query): the filter's $or names sla.responseBreached and
\* sla.resolutionBreached, paths the schema does not have (its flags are
\* sla.isResponseBreached and sla.isResolutionBreached). With strictQuery the
\* unknown paths are stripped and every ticket matches; without it the filter
\* reaches the store, where no document has the fields, and none matches.
Found(r, strictQuery) ==
  IF BreachedFilter(r) /\ ~strictQuery THEN <<>> ELSE Visible(r.actor)

\* strictQuery is the default of the installed Mongoose, which the repository
\* does not pin: either value.
ListTickets(w) ==
  /\ pc[w] = "list"
  /\ \E strictQuery \in BOOLEAN :
       Respond(w, 200, Success([tickets |-> MapBreaches(Found(req[w], strictQuery), now)]))
  /\ Unchanged(w)

\* .sort({'sla.resolutionDeadline': 1})
RECURSIVE SortByResolutionDeadline(_)
SortByResolutionDeadline(docs) ==
  IF docs = <<>> THEN <<>>
  ELSE LET m == CHOOSE i \in DOMAIN docs :
                  \A j \in DOMAIN docs :
                    \/ docs[i].resolutionDeadline < docs[j].resolutionDeadline
                    \/ docs[i].resolutionDeadline = docs[j].resolutionDeadline /\ i <= j
       IN  <<docs[m]>>
           \o SortByResolutionDeadline(
                 [k \in 1..(Len(docs) - 1) |-> IF k < m THEN docs[k] ELSE docs[k + 1]])

\* GET /api/tickets/sla/breached: the tickets whose stored flags are set, as
\* stored (no checkSLABreaches()).
BreachedTickets(w) ==
  /\ pc[w] = "breached"
  /\ Respond(w, 200,
             Success([tickets |->
                        SortByResolutionDeadline(
                          SelectSeq(tickets, LAMBDA d : d.isResponseBreached
                                                        \/ d.isResolutionBreached))]))
  /\ Unchanged(w)

\* A permission check that lets every authenticated actor through.
DeniedNobody(ticket, actor) == FALSE

\* !isOwner && !isAgentOrAdmin (PATCH /:id and POST /:id/comments)
Denied(ticket, actor) ==
  ticket.createdBy # actor /\ Role[actor] \notin {"agent", "admin"}

\* PATCH /api/tickets/:id ---------------------------------------------------
\* A stale check that rejects only a version older than the stored one.
IsStaleOlderOnly(body, ticket) ==
  Has(body, "version") /\ ticket.version > body.version

\* version !== undefined && ticket.version !== version
IsStale(body, ticket) ==
  Has(body, "version") /\ ticket.version # body.version

\* A list that also lets createdBy and createdAt through.
AllowedFieldsWithOrigin(isAgentOrAdmin) ==
  {"title", "description", "createdBy", "createdAt"}
  \cup (IF isAgentOrAdmin
         THEN {"status", "priority", "assignedTo", "category", "tags"} ELSE {})

\* The same fields for every actor.
AllowedFieldsAll(isAgentOrAdmin) ==
  {"status", "priority", "assignedTo", "title", "description", "category", "tags"}

AllowedFields(isAgentOrAdmin) ==
  IF isAgentOrAdmin
    THEN {"status", "priority", "assignedTo", "title", "description", "category", "tags"}
    ELSE {"title", "description"}

\* The order in which the changes are walked (the model fixes the key order
\* of the request body to the order of the allowedFields list).
FieldOrder ==
  <<"status", "priority", "assignedTo", "title", "description", "category", "tags">>

\* Updates that are not filtered.
FilteredUpdatesUnfiltered(body, allowed) ==
  [k \in DOMAIN body \ {"version"} |-> body[k]]

\* filteredUpdates: the body without version, restricted to the allowed keys.
FilteredUpdates(body, allowed) ==
  [k \in (DOMAIN body \ {"version"}) \cap allowed |-> body[k]]

\* A diff that looks at status and priority only.
DiffersStatusPriorityOnly(k, old, new) ==
  k \in {"status", "priority"} /\ old # new

\* ticket[key] !== filteredUpdates[key]: an array is never identical to the
\* body's array, an ObjectId never to the body's string.
Differs(k, old, new) ==
  CASE k = "tags" -> TRUE
    [] k = "assignedTo" -> ~(old = Null /\ new = Null)
    [] OTHER -> old # new

\* Object.assign(ticket, filteredUpdates)
Assigned(l, upd) ==
  [doc |-> [f \in DOMAIN l.doc |-> IF f \in DOMAIN upd THEN upd[f] ELSE l.doc[f]],
   mod |-> l.mod \cup {f \in DOMAIN upd : l.doc[f] # upd[f]}]

\* The timeline entries of the changes: action 'updated' for every field.
ChangeEvents(tid, ticket, upd) ==
  LET changed(i) == FieldOrder[i] \in DOMAIN upd
                    /\ Differs(FieldOrder[i], ticket[FieldOrder[i]], upd[FieldOrder[i]])
      ev(i) == [ticket |-> tid, action |-> "updated", field |-> FieldOrder[i]]
      walk[i \in 0..Len(FieldOrder)] ==
        IF i = 0 THEN <<>>
        ELSE IF changed(i) THEN Append(walk[i - 1], ev(i)) ELSE walk[i - 1]
  IN  walk[Len(FieldOrder)]

PatchLoad(w) ==
  /\ pc[w] = "patch"
  /\ LET r == req[w] IN
     IF ~Exists(r.tid) THEN NotFound(w)
     ELSE LET ticket == tickets[r.tid]
              isAgentOrAdmin == Role[r.actor] \in {"agent", "admin"}
              upd == FilteredUpdates(r.body, AllowedFields(isAgentOrAdmin))
          IN  IF IsStale(r.body, ticket)
                THEN Respond(w, 409, Error("STALE_UPDATE")) /\ Unchanged(w)
                ELSE IF Denied(ticket, r.actor) THEN Forbidden(w)
                  ELSE ToSave(w, Assigned(Loaded(r.tid), upd),
                              ChangeEvents(r.tid, ticket, upd))

\* POST /api/tickets/:id/status ----------------------------------------------
StatusLoad(w) ==
  /\ pc[w] = "status"
  /\ LET r == req[w]
         status == Field(r.body, "status")
     IN  IF status \notin Statuses
           THEN Respond(w, 400, FieldError("INVALID_STATUS", "status")) /\ Unchanged(w)
           ELSE IF ~Exists(r.tid) THEN NotFound(w)
             ELSE ToSave(w, SetPath(Loaded(r.tid), "status", status),
                         <<[ticket |-> r.tid, action |-> "status_changed",
                            field |-> "status"]>>)

\* POST /api/tickets/:id/priority --------------------------------------------
PriorityLoad(w) ==
  /\ pc[w] = "priority"
  /\ LET r == req[w]
         priority == Field(r.body, "priority")
     IN  IF priority \notin Priorities
           THEN Respond(w, 400, FieldError("INVALID_PRIORITY", "priority"))
                /\ Unchanged(w)
           ELSE IF ~Exists(r.tid) THEN NotFound(w)
             ELSE ToSave(w, SetPath(Loaded(r.tid), "priority", priority),
                         <<[ticket |-> r.tid, action |-> "priority_changed",
                            field |-> "priority"]>>)

\* POST /api/tickets/:id/assign ----------------------------------------------
\* const assignee = await User.findById(assignedTo);
\* !assignee || !['agent', 'admin'].includes(assignee.role)
InvalidAssignee(a) == a \notin Users \/ Role[a] \notin {"agent", "admin"}

\* Ticket.findById(req.params.id) of a request whose id segment is no
\* ObjectId (the segment 'bulk') throws a CastError, which the error handler
\* answers with 400 INVALID_ID.
CastFails(r) == r.op = "bulk"

AssignLoad(w) ==
  /\ pc[w] = "assign"
  /\ LET r == req[w]
         assignedTo == Field(r.body, "assignedTo")
     IN  IF CastFails(r)
           THEN Respond(w, 400, FieldError("INVALID_ID", "_id")) /\ Unchanged(w)
         ELSE IF ~Exists(r.tid) THEN NotFound(w)
         ELSE IF Role[r.actor] = "agent" /\ Truthy(assignedTo) /\ assignedTo # r.actor
           THEN Forbidden(w)
           ELSE IF Truthy(assignedTo) /\ InvalidAssignee(assignedTo)
             THEN Respond(w, 400, Error("INVALID_ASSIGNEE")) /\ Unchanged(w)
             ELSE ToSave(w, SetPath(Loaded(r.tid), "assignedTo",
                                    IF Truthy(assignedTo) THEN assignedTo ELSE Null),
                         <<[ticket |-> r.tid, action |-> "assigned",
                            field |-> "assignedTo"]>>)

\* POST /api/tickets/:id/comments --------------------------------------------
CommentTypes == {"comment", "internal_note"}

\* A check against another literal than the type's name.
NoteDeniedWrongLiteral(type, actor) == type = "internal" /\ Role[actor] = "user"

\* type === 'internal_note' && req.user.role === 'user'
NoteDenied(type, actor) == type = "internal_note" /\ Role[actor] = "user"

\* content check, findById, the permission checks.
CommentLoad(w) ==
  /\ pc[w] = "comment"
  /\ LET r == req[w]
         type == IF Has(r.body, "type") THEN r.body.type ELSE "comment"
     IN  IF ~Truthy(Field(r.body, "content"))
           THEN Respond(w, 400, FieldError("FIELD_REQUIRED", "content")) /\ Unchanged(w)
           ELSE IF ~Exists(r.tid) THEN NotFound(w)
             ELSE IF Denied(tickets[r.tid], r.actor)
               THEN Forbidden(w)
               ELSE IF NoteDenied(type, r.actor)
                 THEN Forbidden(w)
                 ELSE /\ loc' = [loc EXCEPT ![w].doc = tickets[r.tid], ![w].mod = {}]
                      /\ pc' = [pc EXCEPT ![w] = "count"]
                      /\ UNCHANGED <<now, tickets, comments, timeline, idem, req,
                                     resp, snap>>

\* A count of the comments of either type.
ExistingCommentsAnyType(tid) ==
  Cardinality({i \in DOMAIN comments : comments[i].ticket = tid})

\* Comment.countDocuments({ticket, type: 'comment'})
ExistingComments(tid) ==
  Cardinality({i \in DOMAIN comments :
                 comments[i].ticket = tid /\ comments[i].type = "comment"})

CommentCount(w) ==
  /\ pc[w] = "count"
  /\ loc' = [loc EXCEPT ![w].count = ExistingComments(req[w].tid)]
  /\ pc' = [pc EXCEPT ![w] = "insert"]
  /\ UNCHANGED <<now, tickets, comments, timeline, idem, req, resp, snap>>

\* Comment.create(...), then ticket.firstResponseAt = new Date() when this is
\* the first response.
CommentInsert(w) ==
  /\ pc[w] = "insert"
  /\ LET r == req[w]
         l == loc[w]
         type == IF Has(r.body, "type") THEN r.body.type ELSE "comment"
         isFirstResponse == l.count = 0 /\ type = "comment"
         c == [ticket |-> r.tid, author |-> r.actor, type |-> type,
               isFirstResponse |-> isFirstResponse, at |-> now]
         ev == <<[ticket |-> r.tid, action |-> "commented", field |-> ""]>>
     IN  IF type \notin CommentTypes
           THEN Respond(w, 400, FieldError("VALIDATION_ERROR", "type")) /\ Unchanged(w)
           ELSE /\ comments' = Append(comments, c)
                /\ LET f == IF isFirstResponse
                              THEN SetPath([doc |-> l.doc, mod |-> l.mod],
                                           "firstResponseAt", now)
                              ELSE [doc |-> l.doc, mod |-> l.mod]
                   IN  loc' = [loc EXCEPT ![w].doc = f.doc, ![w].mod = f.mod,
                                          ![w].events = ev, ![w].comment = c]
                /\ pc' = [pc EXCEPT ![w] = IF isFirstResponse THEN "save" ELSE "emit"]
                /\ UNCHANGED <<now, tickets, timeline, idem, req, resp, snap>>

\* POST /api/tickets/bulk/assign ---------------------------------------------
\* The handler registered for the route (see Handler: no request reaches it).
\* Ticket.updateMany({_id: {$in: ticketIds}}, {assignedTo: assignedTo || null}):
\* an update of the store that runs no save hook.
UpdateMany(store, ids, value) ==
  [i \in DOMAIN store |->
     IF i \in ids THEN [store[i] EXCEPT !.assignedTo = value] ELSE store[i]]

ModifiedCount(store, ids, value) ==
  Cardinality({i \in DOMAIN store : i \in ids /\ store[i].assignedTo # value})

Range(seq) == {seq[i] : i \in DOMAIN seq}

BulkUpdate(w) ==
  /\ pc[w] = "bulk"
  /\ LET r == req[w]
         ids == Field(r.body, "ticketIds")
         assignedTo == Field(r.body, "assignedTo")
         value == IF Truthy(assignedTo) THEN assignedTo ELSE Null
     IN  IF ~Has(r.body, "ticketIds") \/ ids = <<>>
           THEN Respond(w, 400, Error("INVALID_INPUT")) /\ Unchanged(w)
           ELSE IF Truthy(assignedTo) /\ InvalidAssignee(assignedTo)
             THEN Respond(w, 400, Error("INVALID_ASSIGNEE")) /\ Unchanged(w)
             ELSE /\ tickets' = UpdateMany(tickets, Range(ids), value)
                  /\ loc' = [loc EXCEPT ![w].count = ModifiedCount(tickets, Range(ids), value),
                                        ![w].ids = ids]
                  /\ pc' = [pc EXCEPT ![w] = "bulkemit"]
                  /\ UNCHANGED <<now, comments, timeline, idem, req, resp, snap>>

\* One turn of the loop over ticketIds: findById, and a timeline entry when
\* the ticket exists.
BulkEmit(w) ==
  /\ pc[w] = "bulkemit"
  /\ LET tid == Head(loc[w].ids) IN
     timeline' = IF Exists(tid)
                   THEN CreateTimelineEntry(timeline, tid, req[w].actor, "assigned",
                                            "assignedTo", now)
                   ELSE timeline
  /\ loc' = [loc EXCEPT ![w].ids = Tail(@)]
  /\ pc' = [pc EXCEPT ![w] = IF Len(loc[w].ids) > 1 THEN "bulkemit" ELSE "reply"]
  /\ UNCHANGED <<now, tickets, comments, idem, req, resp, snap>>

(***************************************************************************)
(* Requests                                                                *)
(***************************************************************************)
Req(op, actor, key, tid, body) ==
  [op |-> op, actor |-> actor, key |-> key, tid |-> tid, body |-> body]

Mutating(op) == op \notin {"get", "list", "breached"}

\* A request arrives, within the bounds of the model.
ArriveUpTo(w, requests, maxEvents) ==
  \E r \in requests :
    /\ r.op = "create" => Len(tickets) < MaxTickets
    /\ Mutating(r.op) => Len(timeline) < maxEvents
    /\ Receive(w, r)

Arrive(w, requests) == ArriveUpTo(w, requests, MaxEvents)

(***************************************************************************)
(* Spec: the requests of the API handled one after the other.              *)
(***************************************************************************)
CreateBodies ==
  { [title |-> "T1", description |-> "D1"],
    [description |-> "D1"] }

VersionOf(n) == [version |-> n]

PatchBodies ==
  { [title |-> "T2"], [title |-> "T1"],
    [status |-> "resolved"] @@ VersionOf(0),
    [status |-> "closed", title |-> "T2"] @@ VersionOf(1),
    [priority |-> "bogus"] }

Requests ==
  {Req("create", a, NoKey, 0, b) : a \in {"u1", "ag"}, b \in CreateBodies}
  \cup {Req("patch", a, NoKey, 1, b) : a \in {"u1", "ag"}, b \in PatchBodies}
  \cup {Req("status", "ag", NoKey, 1, [status |-> v]) : v \in {"resolved", "bogus"}}
  \cup {Req("priority", "ag", NoKey, 1, [priority |-> "low"])}
  \cup {Req("assign", "ag", NoKey, 1, [assignedTo |-> v]) : v \in {"ag", "ad"}}
  \cup {Req("comment", a, NoKey, 1, [content |-> "c"]) : a \in {"u1", NoAuth}}
  \cup {Req("bulk", "ad", NoKey, 0, [ticketIds |-> <<1, 2>>, assignedTo |-> "ag"])}
  \cup {Req("get", "ag", NoKey, 1, <<>>)}

Instants == {1}

Next ==
  \/ Arrive(1, Requests)
  \/ Create(1)
  \/ GetTicket(1)
  \/ PatchLoad(1)
  \/ StatusLoad(1)
  \/ PriorityLoad(1)
  \/ AssignLoad(1)
  \/ CommentLoad(1)
  \/ CommentCount(1)
  \/ CommentInsert(1)
  \/ Save(1)
  \/ Emit(1)
  \/ Reply(1)
  \/ Tick(Instants)

Spec == Init /\ [][Next]_vars

(***************************************************************************)
(* SpecConc: two requests in flight, their handlers' steps interleaved.    *)
(***************************************************************************)
ConcRequests ==
  {Req("create", "ag", NoKey, 0, [title |-> "T1", description |-> "D1"])}
  \cup {Req("patch", a, NoKey, 1, b @@ VersionOf(0)) :
          a \in {"ag", "ad"}, b \in {[title |-> "T2"], [status |-> "resolved"]}}

NextConc ==
  \E w \in Workers :
    \/ Arrive(w, ConcRequests)
    \/ Create(w)
    \/ PatchLoad(w)
    \/ Save(w)
    \/ Emit(w)
    \/ Reply(w)

SpecConc == Init /\ [][NextConc]_vars

(***************************************************************************)
(* SpecRace: two comment requests on one ticket in flight, the steps of    *)
(* their handlers interleaved, while time passes.                          *)
(***************************************************************************)
RaceRequests ==
  {Req("create", "ag", NoKey, 0, [title |-> "T1", description |-> "D1"])}
  \cup {Req("comment", "ag", NoKey, 1, [content |-> "c"])}

RaceInstants == {1}

NextRace ==
  \/ \E w \in Workers :
       \/ Arrive(w, RaceRequests)
       \/ Create(w)
       \/ CommentLoad(w)
       \/ CommentCount(w)
       \/ CommentInsert(w)
       \/ Save(w)
       \/ Emit(w)
       \/ Reply(w)
  \/ Tick(RaceInstants)

SpecRace == Init /\ [][NextRace]_vars

(***************************************************************************)
(* SpecVersion: two status or assign requests on one ticket in flight,     *)
(* none presenting a version, the steps of their handlers interleaved.     *)
(***************************************************************************)
VersionRequests ==
  {Req("create", "ag", NoKey, 0, [title |-> "T1", description |-> "D1"])}
  \cup {Req("status", "ag", NoKey, 1, [status |-> st]) : st \in {"resolved", "open"}}
  \cup {Req("assign", "ag", NoKey, 1, [assignedTo |-> "ag"])}

NextVersion ==
  \E w \in Workers :
    \/ Arrive(w, VersionRequests)
    \/ Create(w)
    \/ StatusLoad(w)
    \/ AssignLoad(w)
    \/ Save(w)
    \/ Emit(w)
    \/ Reply(w)

SpecVersion == Init /\ [][NextVersion]_vars

(***************************************************************************)
(* SpecPatch: PATCH requests of an agent that change one field or two, or  *)
(* repeat the value a field has, handled one after the other.              *)
(***************************************************************************)
PatchChangeBodies ==
  { [status |-> "resolved"], [priority |-> "high"],
    [title |-> "T2", priority |-> "urgent"], [title |-> "T1"],
    [tags |-> {}], [assignedTo |-> "ag"] }

PatchRequests ==
  {Req("create", "ag", NoKey, 0, [title |-> "T1", description |-> "D1"])}
  \cup {Req("patch", "ag", NoKey, 1, b) : b \in PatchChangeBodies}

NextPatch ==
  \/ Arrive(1, PatchRequests)
  \/ Create(1)
  \/ PatchLoad(1)
  \/ Save(1)
  \/ Emit(1)
  \/ Reply(1)

SpecPatch == Init /\ [][NextPatch]_vars

(***************************************************************************)
(* SpecBreach: the listings of breached tickets, before and after the      *)
(* deadlines of an urgent ticket, with and without its first response.     *)
(***************************************************************************)
BreachRequests ==
  {Req("create", "ag", NoKey, 0,
       [title |-> "T1", description |-> "D1", priority |-> "urgent"])}
  \cup {Req("comment", "ag", NoKey, 1, [content |-> "c"])}
  \cup {Req("get", "ag", NoKey, 1, <<>>)}
  \cup {Req("breached", a, NoKey, 0, <<>>) : a \in {"u1", "ag"}}
  \cup {Req("list", a, NoKey, 0, q) :
          a \in {"u1", "ag"}, q \in {<<>>, [breached |-> "true"]}}

BreachInstants == {3, 9}

NextBreach ==
  \/ Arrive(1, BreachRequests)
  \/ Create(1)
  \/ GetTicket(1)
  \/ ListTickets(1)
  \/ BreachedTickets(1)
  \/ CommentLoad(1)
  \/ CommentCount(1)
  \/ CommentInsert(1)
  \/ Save(1)
  \/ Emit(1)
  \/ Reply(1)
  \/ Tick(BreachInstants)

SpecBreach == Init /\ [][NextBreach]_vars

(***************************************************************************)
(* SpecStatus: status and priority requests with every value of the enums  *)
(* and values outside them, by the dedicated routes and by PATCH.          *)
(***************************************************************************)
StatusRequests ==
  {Req("create", "ag", NoKey, 0, [title |-> "T1", description |-> "D1"] @@ b) :
     b \in {<<>>, [priority |-> "bogus"]}}
  \cup {Req("status", a, NoKey, 1, [status |-> st]) :
          a \in {"ag", "ad"}, st \in Statuses \cup {"bogus"}}
  \cup {Req("status", "ag", NoKey, 1, <<>>)}
  \cup {Req("priority", "ag", NoKey, 1, [priority |-> p]) : p \in {"low", "bogus"}}
  \cup {Req("patch", "ag", NoKey, 1, b) :
          b \in {[status |-> "bogus"], [priority |-> "bogus"]}}

NextStatus ==
  \/ Arrive(1, StatusRequests)
  \/ Create(1)
  \/ StatusLoad(1)
  \/ PriorityLoad(1)
  \/ PatchLoad(1)
  \/ Save(1)
  \/ Emit(1)
  \/ Reply(1)

SpecStatus == Init /\ [][NextStatus]_vars

(***************************************************************************)
(* SpecFrame: PATCH requests whose bodies name fields outside the allowed  *)
(* lists, on a ticket with or without its first response.                  *)
(***************************************************************************)
FramePatchBodies ==
  { [createdBy |-> "ad", createdAt |-> 99, title |-> "T2"],
    [id |-> 9, firstResponseAt |-> 77, resolvedAt |-> 77, responseDeadline |-> 77,
     status |-> "resolved"],
    [version |-> 0, updatedAt |-> 77, description |-> "D2"] }

FrameRequests ==
  {Req("create", a, NoKey, 0, [title |-> "T1", description |-> "D1"]) :
     a \in {"u1", "ag"}}
  \cup {Req("comment", "ag", NoKey, 1, [content |-> "c"])}
  \cup {Req("patch", a, NoKey, 1, b) : a \in Users, b \in FramePatchBodies}

FrameInstants == {1}

NextFrame ==
  \/ Arrive(1, FrameRequests)
  \/ Create(1)
  \/ PatchLoad(1)
  \/ CommentLoad(1)
  \/ CommentCount(1)
  \/ CommentInsert(1)
  \/ Save(1)
  \/ Emit(1)
  \/ Reply(1)
  \/ Tick(FrameInstants)

SpecFrame == Init /\ [][NextFrame]_vars

(***************************************************************************)
(* SpecRetry: PATCH requests carrying an idempotency key, sent once or     *)
(* again, after a create request that may have stored a record for the key. *)
(***************************************************************************)
RetryRequests ==
  {Req("create", "ag", k, 0, [title |-> "T1", description |-> "D1"]) :
     k \in {"k1", NoKey}}
  \cup {Req("patch", "ag", "k1", 1, b) :
          b \in {[tags |-> {}], [title |-> "T2"],
                 [status |-> "resolved"] @@ VersionOf(0)}}
  \cup {Req("patch", a, "k1", 1, [title |-> "T3"]) : a \in {"u1", NoAuth}}

NextRetry ==
  \/ Arrive(1, RetryRequests)
  \/ Create(1)
  \/ PatchLoad(1)
  \/ Save(1)
  \/ Emit(1)
  \/ Reply(1)

SpecRetry == Init /\ [][NextRetry]_vars

(***************************************************************************)
(* SpecDouble: two comment requests carrying the same idempotency key in   *)
(* flight, the steps of their handlers interleaved.                        *)
(***************************************************************************)
DoubleRequests ==
  {Req("create", "ag", NoKey, 0, [title |-> "T1", description |-> "D1"])}
  \cup {Req("comment", "ag", "k1", 1, [content |-> "c"])}

NextDouble ==
  \E w \in Workers :
    \/ Arrive(w, DoubleRequests)
    \/ Create(w)
    \/ CommentLoad(w)
    \/ CommentCount(w)
    \/ CommentInsert(w)
    \/ Save(w)
    \/ Emit(w)
    \/ Reply(w)

SpecDouble == Init /\ [][NextDouble]_vars

(***************************************************************************)
(* SpecIdem: POST requests carrying an idempotency key, handled one after  *)
(* the other, while time passes and the store is swept.                    *)
(***************************************************************************)
IdemRequests ==
  {Req("create", "u1", k, 0, [title |-> "T1", description |-> "D1"]) :
     k \in {"k1", NoKey}}
  \cup {Req("comment", a, k, 1, [content |-> "c"]) :
          a \in {"u1", "ag", NoAuth}, k \in {"k1", NoKey}}
  \cup {Req("status", a, "k1", 1, [status |-> "resolved"]) : a \in {"u1", "ag"}}

IdemInstants == {24, 25}

NextIdem ==
  \/ Arrive(1, IdemRequests)
  \/ Create(1)
  \/ StatusLoad(1)
  \/ CommentLoad(1)
  \/ CommentCount(1)
  \/ CommentInsert(1)
  \/ Save(1)
  \/ Emit(1)
  \/ Reply(1)
  \/ Tick(IdemInstants)
  \/ Sweep

SpecIdem == Init /\ [][NextIdem]_vars

(***************************************************************************)
(* SpecCreate: tickets of every priority created at different instants.    *)
(***************************************************************************)
CreateRequests ==
  {Req("create", a, NoKey, 0, [title |-> "T1", description |-> "D1"]) :
     a \in {"u1", "ag"}}
  \cup {Req("create", "ag", NoKey, 0,
            [title |-> "T1", description |-> "D1", priority |-> p]) :
          p \in Priorities \cup {"bogus"}}
  \cup {Req("create", "ag", NoKey, 0, b) :
          b \in {[title |-> "T1"], [description |-> "D1", priority |-> "high"]}}

CreateInstants == {3, 50}

NextCreate ==
  \/ Arrive(1, CreateRequests)
  \/ Create(1)
  \/ Emit(1)
  \/ Reply(1)
  \/ Tick(CreateInstants)

SpecCreate == Init /\ [][NextCreate]_vars

(***************************************************************************)
(* SpecSla: repriorisation, first response, resolution and reads at the    *)
(* instants around the deadlines of an urgent ticket.                      *)
(***************************************************************************)
SlaRequests ==
  {Req("create", "ag", NoKey, 0,
       [title |-> "T1", description |-> "D1", priority |-> "urgent"])}
  \cup {Req("priority", "ag", NoKey, 1, [priority |-> "low"])}
  \cup {Req("patch", "ag", NoKey, 1, [priority |-> "high"])}
  \cup {Req("comment", "ag", NoKey, 1, [content |-> "c"])}
  \cup {Req("status", "ag", NoKey, 1, [status |-> "resolved"])}
  \cup {Req("get", "ag", NoKey, 1, <<>>)}
  \cup {Req("list", a, NoKey, 0, <<>>) : a \in {"u1", "ag"}}

SlaInstants == {2, 3, 9}

NextSla ==
  \/ Arrive(1, SlaRequests)
  \/ Create(1)
  \/ GetTicket(1)
  \/ ListTickets(1)
  \/ PatchLoad(1)
  \/ StatusLoad(1)
  \/ PriorityLoad(1)
  \/ CommentLoad(1)
  \/ CommentCount(1)
  \/ CommentInsert(1)
  \/ Save(1)
  \/ Emit(1)
  \/ Reply(1)
  \/ Tick(SlaInstants)

SpecSla == Init /\ [][NextSla]_vars

(***************************************************************************)
(* SpecComment: comments of both types on one ticket, one request after    *)
(* the other, at different instants.                                       *)
(***************************************************************************)
CommentRequests ==
  {Req("create", "u1", NoKey, 0, [title |-> "T1", description |-> "D1"])}
  \cup {Req("comment", a, NoKey, 1, [content |-> "c", type |-> t]) :
          a \in {"u1", "ag"}, t \in CommentTypes}
  \cup {Req("comment", "ag", NoKey, 1, [content |-> "c"])}

CommentInstants == {1}

\* Long enough for a creation and three comments, and for a ticket to be
\* resolved, reopened and resolved again.
MilestoneEvents == MaxEvents + 1

NextComment ==
  \/ ArriveUpTo(1, CommentRequests, MilestoneEvents)
  \/ Create(1)
  \/ CommentLoad(1)
  \/ CommentCount(1)
  \/ CommentInsert(1)
  \/ Save(1)
  \/ Emit(1)
  \/ Reply(1)
  \/ Tick(CommentInstants)

SpecComment == Init /\ [][NextComment]_vars

(***************************************************************************)
(* SpecMilestone: a ticket resolved, closed and reopened through the       *)
(* status route and through PATCH, and commented, at different instants.   *)
(***************************************************************************)
MilestoneRequests ==
  {Req("create", "ag", NoKey, 0, [title |-> "T1", description |-> "D1"])}
  \cup {Req("comment", "ag", NoKey, 1, [content |-> "c"])}
  \cup {Req("status", "ag", NoKey, 1, [status |-> v]) :
          v \in {"resolved", "closed", "open"}}
  \cup {Req("patch", "ag", NoKey, 1, [status |-> v]) : v \in {"resolved", "open"}}

MilestoneInstants == {1}

NextMilestone ==
  \/ ArriveUpTo(1, MilestoneRequests, MilestoneEvents)
  \/ Create(1)
  \/ PatchLoad(1)
  \/ StatusLoad(1)
  \/ CommentLoad(1)
  \/ CommentCount(1)
  \/ CommentInsert(1)
  \/ Save(1)
  \/ Emit(1)
  \/ Reply(1)
  \/ Tick(MilestoneInstants)

SpecMilestone == Init /\ [][NextMilestone]_vars

(***************************************************************************)
(* SpecAuthz: what each role may change, on tickets of its own and of      *)
(* others, through PATCH, assign, bulk assign and comments.                *)
(***************************************************************************)
AuthzPatchBodies ==
  { [status |-> "resolved"],
    [status |-> "closed", priority |-> "high", assignedTo |-> "ag",
     category |-> "billing", tags |-> {"x"}, title |-> "T2"],
    [title |-> "T2"] @@ VersionOf(1),
    [assignedTo |-> "ad"], [assignedTo |-> "u1"] }

AuthzRequests ==
  {Req("create", a, NoKey, 0, [title |-> "T1", description |-> "D1"]) :
     a \in {"u1", "ag"}}
  \cup {Req("patch", a, NoKey, 1, b) : a \in {"u1", "ag"}, b \in AuthzPatchBodies}
  \cup {Req("assign", "ag", NoKey, 1, [assignedTo |-> v]) : v \in {"ag", "ad", Null}}
  \cup {Req("assign", "ad", NoKey, 1, [assignedTo |-> v]) : v \in {"ag", "u1", "zz"}}
  \cup {Req("bulk", "ad", NoKey, 0, [ticketIds |-> <<1, 2>>, assignedTo |-> v]) :
          v \in {"ag", "u1"}}
  \cup {Req("comment", "u1", NoKey, 1, [content |-> "c", type |-> t]) :
          t \in CommentTypes}

NextAuthz ==
  \/ Arrive(1, AuthzRequests)
  \/ Create(1)
  \/ PatchLoad(1)
  \/ AssignLoad(1)
  \/ CommentLoad(1)
  \/ CommentCount(1)
  \/ CommentInsert(1)
  \/ Save(1)
  \/ Emit(1)
  \/ Reply(1)

SpecAuthz == Init /\ [][NextAuthz]_vars

(***************************************************************************)
(* SpecFail: the mutations of a ticket while writes to the Timeline        *)
(* collection may fail.                                                    *)
(***************************************************************************)
FailRequests ==
  {Req("create", "u1", NoKey, 0, [title |-> "T1", description |-> "D1"])}
  \cup {Req("patch", "ag", NoKey, 1, b) :
          b \in {[title |-> "T2"], [status |-> "resolved", priority |-> "high"]}}
  \cup {Req("assign", "ag", NoKey, 1, [assignedTo |-> "ag"])}
  \cup {Req("status", "ag", NoKey, 1, [status |-> "resolved"])}
  \cup {Req("priority", "ag", NoKey, 1, [priority |-> "low"])}
  \cup {Req("comment", "ag", NoKey, 1, [content |-> "c"])}

\* Failures are injected while the tickets and the comments are within the
\* bounds of the model.
WithinBounds ==
  /\ Len(comments) < MaxEvents
  /\ \A i \in DOMAIN tickets : tickets[i].version < MaxEvents

NextFail ==
  \/ Arrive(1, FailRequests)
  \/ Create(1)
  \/ PatchLoad(1)
  \/ StatusLoad(1)
  \/ PriorityLoad(1)
  \/ AssignLoad(1)
  \/ CommentLoad(1)
  \/ CommentCount(1)
  \/ CommentInsert(1)
  \/ Save(1)
  \/ Emit(1)
  \/ WithinBounds /\ EmitFail(1)
  \/ Reply(1)

SpecFail == Init /\ [][NextFail]_vars

(***************************************************************************)
(* Properties                                                              *)
(***************************************************************************)
\* The response of slot w is a success produced by its handler.
Succeeded(w) == pc[w] = "done" /\ resp[w].status \in {200, 201} /\ ~resp[w].cached

\* The tickets the request of slot w changed or created, and those it
\* commented, since it arrived.
ChangedTickets(w) ==
  {i \in DOMAIN tickets :
     i \notin DOMAIN snap[w].tickets \/ tickets[i] # snap[w].tickets[i]}
CommentedTickets(w) ==
  {comments[j].ticket : j \in (snap[w].comments + 1)..Len(comments)}
\* The tickets referenced by the timeline entries written since it arrived.
LoggedTickets(w) ==
  {timeline[j].ticket : j \in (snap[w].events + 1)..Len(timeline)}

\* C1: a PATCH whose body carries a version different from the stored one
\* is answered 409 STALE_UPDATE by the handler's first step, which leaves the
\* Ticket collection and the timeline as they are.
StalePatch(w) ==
  /\ pc[w] = "patch"
  /\ Exists(req[w].tid)
  /\ Has(req[w].body, "version")
  /\ req[w].body.version # tickets[req[w].tid].version

C1_StaleUpdateRejected ==
  [][\A w \in Workers :
       StalePatch(w) /\ pc'[w] # pc[w] =>
         /\ pc'[w] = "done"
         /\ resp'[w].status = 409
         /\ resp'[w].body.code = "STALE_UPDATE"
         /\ tickets' = tickets
         /\ timeline' = timeline]_vars

\* C1 witness: a stale PATCH was answered after the ticket had been modified.
C1_Witness ==
  /\ pc[1] = "done" /\ req[1].op = "patch" /\ resp[1].status = 409
  /\ Exists(1) /\ tickets[1].version = 1 /\ req[1].body.version = 0

\* C3 amended: a successful mutation request leaves every ticket it changed
\* with a version exactly 1 greater than the version it had when the request
\* arrived, and every other ticket with the version it had.
C3_VersionIncrementedByOne ==
  \A w \in Workers :
    Succeeded(w) /\ req[w].op \in {"patch", "assign", "status", "priority", "bulk", "comment"} =>
      \A i \in DOMAIN snap[w].tickets :
        tickets[i].version = snap[w].tickets[i].version
                               + (IF i \in ChangedTickets(w) THEN 1 ELSE 0)

\* C3 as stated: every PATCH, assign, status or priority request that
\* returned success left the version of its ticket 1 greater than it was
\* when the request arrived (and so did a bulk assign or a comment for the
\* tickets it changed).
C3_EverySuccessIncrements ==
  \A w \in Workers :
    /\ C3_VersionIncrementedByOne
    /\ Succeeded(w) /\ req[w].op \in {"patch", "assign", "status", "priority"} =>
         tickets[req[w].tid].version = snap[w].tickets[req[w].tid].version + 1

\* C3 witness: a status request changed a ticket that was already at
\* version 1, and left it at version 2.
C3_Witness ==
  /\ Succeeded(1) /\ req[1].op = "status" /\ ChangedTickets(1) = {1}
  /\ snap[1].tickets[1].version = 1 /\ tickets[1].version = 2

\* C4: a request that returned success wrote at least one timeline entry for
\* every ticket it created, changed or commented.
C4_MutationLogged ==
  \A w \in Workers :
    Succeeded(w) => (ChangedTickets(w) \cup CommentedTickets(w)) \subseteq LoggedTickets(w)

\* C4 witness: a successful PATCH changed a ticket.
C4_Witness ==
  /\ Succeeded(1) /\ req[1].op = "patch" /\ ChangedTickets(1) = {1}
  /\ tickets[1].title = "T2"

\* C5: the timeline only grows; what was written stays as it was written.
C5_TimelineAppendOnly ==
  [][/\ Len(timeline') >= Len(timeline)
     /\ SubSeq(timeline', 1, Len(timeline)) = timeline]_vars

\* C5 witness: several entries have been written, by different handlers.
C5_Witness ==
  /\ Len(timeline) >= 3
  /\ timeline[1].action = "created"
  /\ \E i, j \in DOMAIN timeline : timeline[i].action = "updated"
                                   /\ timeline[j].action = "assigned"

\* C2: of two PATCH requests on one ticket that present the same version,
\* at most one is applied (answered with success, its changes written under
\* an incremented version).
Applied(w) ==
  /\ Succeeded(w) /\ req[w].op = "patch" /\ Has(req[w].body, "version")
  /\ loc[w].doc.version = req[w].body.version + 1

C2_AtMostOneApplied ==
  \A v, w \in Workers :
    v # w /\ Applied(v) /\ Applied(w) /\ req[v].tid = req[w].tid =>
      req[v].body.version # req[w].body.version

\* The request answered in slot w is sent again (in a step that is no
\* arrival the slot does not change, and the formulas below hold trivially).
Resent(w) == pc[w] = "done" /\ Keyed(req[w]) /\ req'[w] = req[w]

\* The same response again, and no handler run.
Replayed(w) ==
  /\ pc'[w] = "done"
  /\ resp'[w].status = resp[w].status
  /\ resp'[w].body = resp[w].body
  /\ tickets' = tickets /\ timeline' = timeline /\ comments' = comments

\* A record is stored under the key the middleware derives for request r.
Recorded(r) == StoreKey(MountedUser(r.actor), r.key) \in DOMAIN idem

C7_KeyScopedByActor ==
  [][\A w \in Workers :
       /\ pc[w] = "done" /\ Keyed(req[w]) /\ ~resp[w].cached
       /\ Keyed(req'[w]) /\ req'[w].key = req[w].key
       /\ req'[w].actor \in Users /\ req[w].actor \in Users
       /\ req'[w].actor # req[w].actor
       => ~resp'[w].cached]_vars

\* The SLA hour tables of the specification.
ResponseTable == [low |-> 48, medium |-> 24, high |-> 8, urgent |-> 2]
ResolutionTable == [low |-> 168, medium |-> 72, high |-> 24, urgent |-> 8]

\* C8: a step that changes the stored priority of a ticket leaves both
\* deadlines at the time of the change plus the hours of the new priority.
C8_PriorityChangeRecomputesSla ==
  [][\A i \in DOMAIN tickets :
       tickets'[i].priority # tickets[i].priority =>
         /\ tickets'[i].responseDeadline = now + ResponseTable[tickets'[i].priority]
         /\ tickets'[i].resolutionDeadline = now + ResolutionTable[tickets'[i].priority]]_vars

\* C9: the step that creates a ticket stores it with the requested priority
\* (medium when none is given) and with both deadlines at createdAt plus the
\* hours of that priority.
C9_DeadlinesAtCreation ==
  [][\A w \in Workers :
       pc[w] = "create" /\ Len(tickets') = Len(tickets) + 1 =>
         LET d == tickets'[Len(tickets')]
             p == IF Has(req[w].body, "priority") THEN req[w].body.priority ELSE "medium"
         IN  /\ d.priority = p
             /\ d.createdAt = now
             /\ d.responseDeadline = d.createdAt + ResponseTable[p]
             /\ d.resolutionDeadline = d.createdAt + ResolutionTable[p]]_vars

\* C9 witness: a ticket of priority high was created at hour 3.
C9_Witness ==
  /\ Exists(1) /\ tickets[1].priority = "high" /\ tickets[1].createdAt = 3
  /\ tickets[1].responseDeadline = 11 /\ tickets[1].resolutionDeadline = 27

\* C10: the ticket returned by a read at time now carries isResponseBreached
\* iff firstResponseAt is unset and now > responseDeadline, and
\* isResolutionBreached iff resolvedAt is unset and now > resolutionDeadline.
BreachesAsSpecified(returned, stored, t) ==
  /\ returned.isResponseBreached
       = (stored.firstResponseAt = Unset /\ t > stored.responseDeadline)
  /\ returned.isResolutionBreached
       = (stored.resolvedAt = Unset /\ t > stored.resolutionDeadline)

C10_BreachFlagsOnRead ==
  [][\A w \in Workers :
       /\ pc[w] = "get" /\ pc'[w] = "done" /\ resp'[w].status = 200 =>
            BreachesAsSpecified(resp'[w].body.data.ticket, tickets[req[w].tid], now)
       /\ pc[w] = "list" /\ pc'[w] = "done" =>
            LET out == resp'[w].body.data.tickets IN
            /\ Len(out) = Len(Visible(req[w].actor))
            /\ \A i \in DOMAIN out :
                 BreachesAsSpecified(out[i], tickets[out[i].id], now)]_vars

\* C10 witness: a read after the response deadline of a ticket that got its
\* first response reports no response breach, and a resolution breach.
C10_Witness ==
  /\ pc[1] = "done" /\ req[1].op = "get" /\ resp[1].status = 200
  /\ tickets[1].firstResponseAt # Unset
  /\ now > tickets[1].responseDeadline
  /\ ~resp[1].body.data.ticket.isResponseBreached
  /\ resp[1].body.data.ticket.isResolutionBreached

\* The comments of type 'comment' on ticket i, by their place in the
\* collection, and the least of a nonempty set of places.
CommentsOn(i) ==
  {j \in DOMAIN comments : comments[j].ticket = i /\ comments[j].type = "comment"}
Least(S) == CHOOSE j \in S : \A k \in S : j <= k

\* C11: between requests, of the comments of a ticket exactly the first of
\* type 'comment' is stored with isFirstResponse = TRUE, and the ticket's
\* firstResponseAt is the instant of that comment (unset while there is none,
\* whatever internal notes there are).
C11_FirstResponseOnce ==
  pc[1] \in {"idle", "done"} =>
    \A i \in DOMAIN tickets :
      /\ \A j \in DOMAIN comments :
           comments[j].ticket = i =>
             (comments[j].isFirstResponse <=> CommentsOn(i) # {} /\ j = Least(CommentsOn(i)))
      /\ tickets[i].firstResponseAt =
           IF CommentsOn(i) = {} THEN Unset ELSE comments[Least(CommentsOn(i))].at

\* C11 witness: an internal note, then a first response, then a later
\* comment at another instant.
C11_Witness ==
  /\ pc[1] = "done" /\ Len(comments) = 3
  /\ comments[1].type = "internal_note" /\ comments[2].type = "comment"
  /\ comments[2].isFirstResponse /\ comments[3].type = "comment"
  /\ comments[3].at > comments[2].at
  /\ tickets[1].firstResponseAt = comments[2].at

\* C12: no step changes a milestone timestamp that has a value.
Milestones == {"firstResponseAt", "resolvedAt", "closedAt"}

C12_MilestonesFirstWriteWins ==
  [][\A i \in DOMAIN tickets : \A f \in Milestones :
       tickets[i][f] # Unset => tickets'[i][f] = tickets[i][f]]_vars

\* C12 witness: a ticket resolved at instant 0 was reopened and, at a later
\* instant, resolved again.
C12_Witness ==
  /\ Succeeded(1) /\ req[1].op \in {"status", "patch"}
  /\ snap[1].tickets[1].status = "open" /\ snap[1].tickets[1].resolvedAt = 0
  /\ tickets[1].status = "resolved" /\ tickets[1].updatedAt > 0
  /\ tickets[1].resolvedAt = 0

\* The request in slot w is of a 'user'-role actor on a ticket that existed
\* when it arrived and that the actor created (Own) or did not (Foreign).
ByUserOn(w) ==
  /\ req[w].actor \in Users /\ Role[req[w].actor] = "user"
  /\ req[w].tid \in DOMAIN snap[w].tickets
Own(w) == ByUserOn(w) /\ snap[w].tickets[req[w].tid].createdBy = req[w].actor
Foreign(w) == ByUserOn(w) /\ snap[w].tickets[req[w].tid].createdBy # req[w].actor

\* Since the request of slot w arrived nothing was written.
NothingWritten(w) ==
  /\ tickets = snap[w].tickets
  /\ Len(timeline) = snap[w].events
  /\ Len(comments) = snap[w].comments

\* C13: whatever the body of a PATCH by the 'user'-role creator of a ticket,
\* the ticket's status, priority, assignedTo, category and tags stay as they
\* were when the request arrived.
C13_CreatorChangesTitleDescriptionOnly ==
  \A w \in Workers :
    req[w].op = "patch" /\ Own(w) =>
      \A f \in {"status", "priority", "assignedTo", "category", "tags"} :
        tickets[req[w].tid][f] = snap[w].tickets[req[w].tid][f]

\* C13 witness: the creator's PATCH naming all seven fields succeeded and
\* changed the title.
C13_Witness ==
  /\ Succeeded(1) /\ req[1].op = "patch" /\ Own(1)
  /\ Has(req[1].body, "status") /\ Has(req[1].body, "tags")
  /\ tickets[1].title = "T2" /\ tickets[1].status = "open"
  /\ tickets[1].version = 1

\* A PATCH of the 'user'-role creator that names fields, none of them title
\* or description, and no stale version, has been answered.
OnlyDisallowed(w) ==
  /\ pc[w] = "done" /\ req[w].op = "patch" /\ Own(w)
  /\ DOMAIN req[w].body \ {"version"} # {}
  /\ DOMAIN req[w].body \cap {"title", "description"} = {}
  /\ ~IsStale(req[w].body, snap[w].tickets[req[w].tid])

\* C14 as stated: such a request is answered 403 FORBIDDEN and applies none
\* of its fields.
C14_OnlyDisallowedForbidden ==
  \A w \in Workers :
    OnlyDisallowed(w) =>
      /\ resp[w].status = 403 /\ resp[w].body.code = "FORBIDDEN"
      /\ tickets = snap[w].tickets

\* C14 amended: such a request applies none of its fields, writes nothing
\* (no version increment, no timeline entry) and is answered with success and
\* the ticket as it is stored.
C14_OnlyDisallowedDropped ==
  \A w \in Workers :
    OnlyDisallowed(w) =>
      /\ resp[w].status = 200 /\ resp[w].body.code = "OK"
      /\ resp[w].body.data.ticket = tickets[req[w].tid]
      /\ NothingWritten(w)

\* C14 witness: the creator's PATCH of the status alone has been answered.
C14_Witness ==
  /\ OnlyDisallowed(1) /\ req[1].body = [status |-> "resolved"]
  /\ tickets[1].status = "open"

\* A PATCH, or a comment with content, of a 'user'-role actor on a ticket of
\* another actor has been answered.
ForeignAnswered(w) ==
  /\ pc[w] = "done" /\ Foreign(w)
  /\ \/ req[w].op = "patch"
     \/ req[w].op = "comment" /\ Truthy(Field(req[w].body, "content"))

\* C15 as stated: it is answered 403 FORBIDDEN and nothing was written.
C15_ForeignForbidden ==
  \A w \in Workers :
    ForeignAnswered(w) =>
      /\ resp[w].status = 403 /\ resp[w].body.code = "FORBIDDEN"
      /\ NothingWritten(w)

\* C15 amended: nothing was written, and it is answered 403 FORBIDDEN unless
\* it is a PATCH carrying a version other than the stored one, which is
\* answered 409 STALE_UPDATE.
C15_ForeignRejected ==
  \A w \in Workers :
    ForeignAnswered(w) =>
      /\ NothingWritten(w)
      /\ IF req[w].op = "patch" /\ IsStale(req[w].body, snap[w].tickets[req[w].tid])
           THEN resp[w].status = 409 /\ resp[w].body.code = "STALE_UPDATE"
           ELSE resp[w].status = 403 /\ resp[w].body.code = "FORBIDDEN"

\* C15 witness: a user's PATCH of all the fields of an agent's ticket was
\* answered 403.
C15_Witness ==
  /\ ForeignAnswered(1) /\ resp[1].status = 403
  /\ req[1].op = "patch" /\ Has(req[1].body, "title") /\ Has(req[1].body, "status")
  /\ tickets[1].createdBy = "ag" /\ tickets[1].title = "T1"

\* C16: a request of an 'agent'-role actor, through assign or PATCH, that
\* names another identity as assignedTo leaves the stored assignedTo as it
\* was when the request arrived.
C16_AgentAssignsSelfOnly ==
  \A w \in Workers :
    /\ req[w].actor \in Users /\ Role[req[w].actor] = "agent"
    /\ req[w].op \in {"assign", "patch"}
    /\ req[w].tid \in DOMAIN snap[w].tickets
    /\ Truthy(Field(req[w].body, "assignedTo"))
    /\ req[w].body.assignedTo # req[w].actor
    => tickets[req[w].tid].assignedTo = snap[w].tickets[req[w].tid].assignedTo

\* C17: the assignee of every stored ticket is unset, null or a user of role
\* agent or admin.
C17_AssigneeIsAgentOrAdmin ==
  \A i \in DOMAIN tickets :
    \/ tickets[i].assignedTo \in {Undefined, Null}
    \/ /\ tickets[i].assignedTo \in Users
       /\ Role[tickets[i].assignedTo] \in {"agent", "admin"}

\* C18: no stored internal note has a 'user'-role author, and a comment
\* request with content and type internal_note of a 'user'-role actor on an
\* existing ticket is answered 403 with nothing written.
C18_NoInternalNoteByUser ==
  /\ \A j \in DOMAIN comments :
       comments[j].type = "internal_note" => Role[comments[j].author] # "user"
  /\ \A w \in Workers :
       /\ pc[w] = "done" /\ req[w].op = "comment" /\ ByUserOn(w)
       /\ Field(req[w].body, "type") = "internal_note"
       /\ Truthy(Field(req[w].body, "content"))
       => /\ resp[w].status = 403 /\ resp[w].body.code = "FORBIDDEN"
          /\ NothingWritten(w)

\* C18 witness: the creator's internal note on their own ticket was refused.
C18_Witness ==
  /\ pc[1] = "done" /\ req[1].op = "comment" /\ Own(1)
  /\ req[1].body.type = "internal_note" /\ resp[1].status = 403

\* C19: a bulk assign by an admin that lists ticket ids, some of which do not
\* exist, and names an agent is answered with success, has assigned every
\* listed ticket that exists, and reports their number as modifiedCount.
C19_BulkAssignSkipsMissing ==
  \A w \in Workers :
    /\ pc[w] = "done" /\ req[w].op = "bulk"
    /\ req[w].actor \in Users /\ Role[req[w].actor] = "admin"
    /\ ~InvalidAssignee(req[w].body.assignedTo)
    /\ Range(req[w].body.ticketIds) \cap DOMAIN snap[w].tickets # {}
    => LET listed == Range(req[w].body.ticketIds) \cap DOMAIN snap[w].tickets IN
       /\ resp[w].status = 200
       /\ resp[w].body.data.modifiedCount = Cardinality(listed)
       /\ \A i \in listed : tickets[i].assignedTo = req[w].body.assignedTo

\* The request of slot w has been answered with timeline entries of its
\* handler left unwritten (a timeline write failed), its ticket write done.
AuditGap(w) ==
  /\ pc[w] = "done" /\ loc[w].events # <<>>
  /\ req[w].op \in {"patch", "assign", "status", "priority", "comment"}
  /\ ChangedTickets(w) # {}

\* C20: a mutation whose timeline write failed after its ticket write is
\* answered with success, and the ticket write is kept.
C20_AuditGapTolerated ==
  \A w \in Workers :
    AuditGap(w) =>
      /\ resp[w].status \in {200, 201}
      /\ tickets[req[w].tid] = loc[w].doc

\* A keyed POST arrives in slot w (the step that takes it in).
KeyedArrival(w) ==
  /\ pc[w] \in {"idle", "done"}
  /\ <<pc'[w], req'[w], resp'[w], snap'[w]>> # <<pc[w], req[w], resp[w], snap[w]>>
  /\ Keyed(req'[w])

\* The record stored under the key of request r.
RecordOf(r) == idem[StoreKey(MountedUser(r.actor), r.key)]

\* C21 as stated: a keyed request that arrives more than 24 hours after the
\* record of its key was stored is not answered from the cache.
C21_NoReplayAfterExpiry ==
  [][\A w \in Workers :
       KeyedArrival(w) /\ Recorded(req'[w]) /\ now - RecordOf(req'[w]).timestamp > TTL
       => ~(pc'[w] = "done" /\ resp'[w].cached)]_vars

\* C21 amended: a step removes records only as the sweep does, all those
\* stored more than 24 hours before and no other; a keyed request that finds
\* no record is not answered from the cache and goes to authentication and
\* its handler; one that finds a record is answered from it, also when the
\* record is older than 24 hours and not yet swept.
C21_ReplayUntilSwept ==
  [][/\ DOMAIN idem \ DOMAIN idem' # {} =>
          DOMAIN idem' = {k \in DOMAIN idem : idem[k].timestamp >= now - TTL}
     /\ \A w \in Workers :
          KeyedArrival(w) =>
            IF Recorded(req'[w])
              THEN resp'[w].cached /\ pc'[w] = "done"
              ELSE pc'[w] = "done" =>
                     ~resp'[w].cached /\ resp'[w].status \in {401, 403}]_vars

\* C21 witness: the status request, which always bears the key, has been
\* executed at instant 0 and again at instant 25, after the sweep.
C21_Witness ==
  /\ Succeeded(1) /\ req[1].op = "status" /\ now = 25
  /\ Recorded(req[1]) /\ RecordOf(req[1]).timestamp = 25
  /\ \E i, j \in DOMAIN timeline :
       /\ timeline[i].action = "status_changed" /\ timeline[i].at = 0
       /\ timeline[j].action = "status_changed" /\ timeline[j].at = 25

\* The step answers the request of slot w.
Answers(w) ==
  /\ pc'[w] = "done"
  /\ <<pc'[w], req'[w], resp'[w], snap'[w]>> # <<pc[w], req[w], resp[w], snap[w]>>

\* C22: while a keyed request that missed the cache is being handled there
\* is no record under its key; the step that answers it (with success or
\* with an error) writes the record, holding the status and body sent, and
\* writes nothing to tickets, comments or timeline, which the handler has
\* written before; and no other step writes a record.
C22_StoredOnceAfterMutation ==
  [][/\ \A w \in Workers :
          /\ pc[w] \notin {"idle", "done"} /\ Keyed(req[w]) => ~Recorded(req[w])
          /\ Answers(w) /\ Keyed(req'[w]) /\ ~resp'[w].cached =>
               LET k == StoreKey(MountedUser(req'[w].actor), req'[w].key) IN
               /\ idem' = Put(idem, k, [statusCode |-> resp'[w].status,
                                        body |-> resp'[w].body, timestamp |-> now])
               /\ tickets' = tickets /\ timeline' = timeline /\ comments' = comments
     /\ (\E k \in DOMAIN idem' : k \notin DOMAIN idem \/ idem'[k] # idem[k]) =>
          \E w \in Workers :
            /\ pc'[w] = "done"
            /\ Keyed(req'[w]) /\ ~resp'[w].cached
            /\ idem' = Put(idem, StoreKey(MountedUser(req'[w].actor), req'[w].key),
                           [statusCode |-> resp'[w].status, body |-> resp'[w].body,
                            timestamp |-> now])]_vars

\* C22 witness: a keyed comment has been executed and answered, and its
\* response is the record of the key.
C22_Witness ==
  /\ Succeeded(1) /\ req[1].op = "comment" /\ req[1].key = "k1"
  /\ Len(comments) = 1 /\ Len(timeline) = 2
  /\ Recorded(req[1]) /\ RecordOf(req[1]).body = resp[1].body
  /\ RecordOf(req[1]).statusCode = 201

\* C23: a create request with title and description (and a priority of the
\* schema, if any) is answered 201 and has stored one new ticket, open, at
\* version 0, created by the actor, with the deadlines of its priority, and
\* one timeline entry, 'created', for it; a create request without title or
\* without description is answered 400 FIELD_REQUIRED naming the field, and
\* has written nothing.
C23_Create ==
  \A w \in Workers :
    pc[w] = "done" /\ req[w].op = "create" /\ req[w].actor \in Users =>
      LET b == req[w].body
          p == IF Has(b, "priority") THEN b.priority ELSE "medium"
          n == Len(snap[w].tickets) + 1
      IN  IF Truthy(Field(b, "title")) /\ Truthy(Field(b, "description"))
            THEN p \in Priorities =>
                   /\ resp[w].status = 201
                   /\ Len(tickets) = n
                   /\ SubSeq(tickets, 1, n - 1) = snap[w].tickets
                   /\ tickets[n].status = "open" /\ tickets[n].version = 0
                   /\ tickets[n].createdBy = req[w].actor
                   /\ tickets[n].title = b.title /\ tickets[n].priority = p
                   /\ tickets[n].responseDeadline = tickets[n].createdAt + ResponseTable[p]
                   /\ tickets[n].resolutionDeadline =
                        tickets[n].createdAt + ResolutionTable[p]
                   /\ Len(timeline) = snap[w].events + 1
                   /\ timeline[Len(timeline)].action = "created"
                   /\ timeline[Len(timeline)].ticket = n
                   /\ resp[w].body.data.ticket = tickets[n]
            ELSE /\ resp[w].status = 400 /\ resp[w].body.code = "FIELD_REQUIRED"
                 /\ resp[w].body.field =
                      (IF Truthy(Field(b, "title")) THEN "description" ELSE "title")
                 /\ NothingWritten(w)

\* C23 witness: the user's request with title and description was answered
\* 201 at hour 3, and the ticket and its 'created' entry are stored.
C23_Witness ==
  /\ Succeeded(1) /\ req[1].op = "create" /\ req[1].actor = "u1"
  /\ resp[1].status = 201 /\ now = 3
  /\ Len(tickets) = 1 /\ tickets[1].createdBy = "u1" /\ tickets[1].createdAt = 3
  /\ tickets[1].version = 0 /\ tickets[1].responseDeadline = 27
  /\ Len(timeline) = 1 /\ timeline[1].action = "created"

FirstResponses(log, tid) ==
  {c \in DOMAIN log : log[c].ticket = tid /\ log[c].isFirstResponse}

\* C24: whatever the interleaving of the comment handlers' steps, at most one
\* stored comment of a ticket has isFirstResponse = true, and no step changes
\* a firstResponseAt that is set.
C24_FirstResponseOnceInterleaved ==
  [][\A i \in DOMAIN tickets :
       /\ Cardinality(FirstResponses(comments', i)) <= 1
       /\ tickets[i].firstResponseAt # Unset =>
            tickets'[i].firstResponseAt = tickets[i].firstResponseAt]_vars

\* C25: no step decreases the stored version of a ticket.
C25_VersionNeverDecreases ==
  [][\A i \in DOMAIN tickets : tickets'[i].version >= tickets[i].version]_vars

\* The timeline entries written since the request of slot w arrived.
NewEntries(w) == (snap[w].events + 1)..Len(timeline)
\* The fields of a finished PATCH whose requested value is not the value the
\* ticket had, and those whose requested value is that value.
Patched(w) == Succeeded(w) /\ req[w].op = "patch"
Requested(w) ==
  DOMAIN FilteredUpdates(req[w].body, AllowedFields(Role[req[w].actor] # "user"))
ChangedFields(w) ==
  {f \in Requested(w) : snap[w].tickets[req[w].tid][f] # req[w].body[f]}
RepeatedFields(w) ==
  {f \in Requested(w) : snap[w].tickets[req[w].tid][f] = req[w].body[f]}
OnePerChangedField(w) ==
  /\ \A j \in NewEntries(w) : timeline[j].ticket = req[w].tid
  /\ \A f \in ChangedFields(w) :
       Cardinality({j \in NewEntries(w) : timeline[j].field = f}) = 1

\* C26: a successful PATCH has written one entry per changed field,
\* tagged 'status_changed' for status, 'priority_changed' for priority and
\* 'updated' for every other field.
C26_ActionTaggedByField ==
  \A w \in Workers :
    Patched(w) =>
      /\ OnePerChangedField(w)
      /\ \A j \in NewEntries(w) :
           timeline[j].action =
             CASE timeline[j].field = "status" -> "status_changed"
               [] timeline[j].field = "priority" -> "priority_changed"
               [] OTHER -> "updated"

\* C28: a successful PATCH has written no entry for a field whose requested
\* value is the value the ticket had.
C28_NoEventForUnchangedField ==
  \A w \in Workers :
    Patched(w) =>
      \A f \in RepeatedFields(w) :
        \A j \in NewEntries(w) : timeline[j].field # f

\* C27: a successful assign request has written exactly one timeline entry,
\* tagged 'assigned' when the requested assignee is not null and 'unassigned'
\* when it is null.
C27_AssignedOrUnassigned ==
  \A w \in Workers :
    Succeeded(w) /\ req[w].op = "assign" =>
      /\ Len(timeline) = snap[w].events + 1
      /\ timeline[Len(timeline)].ticket = req[w].tid
      /\ timeline[Len(timeline)].action =
           (IF Field(req[w].body, "assignedTo") # Null THEN "assigned" ELSE "unassigned")

\* C29: a bulk assign by an admin that lists ticket ids and names an agent
\* returns a modifiedCount, and the number of 'assigned' timeline entries it
\* has written equals that count.
C29_OneEventPerModifiedTicket ==
  \A w \in Workers :
    /\ pc[w] = "done" /\ req[w].op = "bulk"
    /\ req[w].actor \in Users /\ Role[req[w].actor] = "admin"
    /\ req[w].body.ticketIds # <<>> /\ ~InvalidAssignee(req[w].body.assignedTo)
    => /\ Has(resp[w].body.data, "modifiedCount")
       /\ Cardinality({j \in NewEntries(w) : timeline[j].action = "assigned"})
            = resp[w].body.data.modifiedCount

\* The tickets for which checkSLABreaches() at time t reports a breach.
BreachedAt(t) ==
  {i \in DOMAIN tickets :
     \/ tickets[i].firstResponseAt = Unset /\ t > tickets[i].responseDeadline
     \/ tickets[i].resolvedAt = Unset /\ t > tickets[i].resolutionDeadline}

\* C30: the listing of breached tickets (GET /sla/breached, and GET / with
\* breached=true by an agent or admin) answered at time now holds exactly the
\* tickets for which checkSLABreaches() at now reports a breach.
C30_BreachedListingExact ==
  [][\A w \in Workers :
       /\ pc[w] \in {"breached", "list"} /\ pc'[w] = "done" /\ resp'[w].status = 200
       /\ req[w].op = "breached" \/ BreachedFilter(req[w])
       => LET out == resp'[w].body.data.tickets IN
          {out[i].id : i \in DOMAIN out} = BreachedAt(now)]_vars

\* C31: every stored ticket has a status of the five and a priority of the
\* four; a status request by an agent or admin on an existing ticket with one
\* of the five values is answered 200 and leaves the ticket with that status,
\* whatever its status was; a status or priority request with a value outside
\* the enum is answered 400 and has written nothing.
C31_StatusClosedOverEnum ==
  /\ \A i \in DOMAIN tickets :
       tickets[i].status \in Statuses /\ tickets[i].priority \in Priorities
  /\ \A w \in Workers :
       pc[w] = "done" /\ req[w].actor \in Users /\ Role[req[w].actor] # "user" =>
         /\ req[w].op = "status" /\ req[w].tid \in DOMAIN snap[w].tickets =>
              IF Field(req[w].body, "status") \in Statuses
                THEN /\ resp[w].status = 200
                     /\ tickets[req[w].tid].status = req[w].body.status
                     /\ resp[w].body.data.ticket.status = req[w].body.status
                ELSE resp[w].status = 400 /\ NothingWritten(w)
         /\ req[w].op = "status" /\ Field(req[w].body, "status") \notin Statuses =>
              /\ resp[w].status = 400 /\ resp[w].body.code = "INVALID_STATUS"
              /\ NothingWritten(w)
         /\ req[w].op = "priority" /\ Field(req[w].body, "priority") \notin Priorities =>
              /\ resp[w].status = 400 /\ resp[w].body.code = "INVALID_PRIORITY"
              /\ NothingWritten(w)

\* C31 witness: a closed ticket was set back to open by a status request.
C31_Witness ==
  /\ Succeeded(1) /\ req[1].op = "status" /\ req[1].body.status = "open"
  /\ snap[1].tickets[1].status = "closed" /\ tickets[1].status = "open"

\* C32: a PATCH that has been answered, whatever its actor and body, has left
\* the ticket's id, createdBy, createdAt and firstResponseAt as they were, its
\* version as it was or one higher, and has written no value its body gave
\* for a field outside the actor's allowed list.
C32_PatchFrame ==
  \A w \in Workers :
    /\ pc[w] = "done" /\ req[w].op = "patch" /\ req[w].actor \in Users
    /\ req[w].tid \in DOMAIN snap[w].tickets
    => LET old == snap[w].tickets[req[w].tid]
           new == tickets[req[w].tid]
           allowed == AllowedFields(Role[req[w].actor] # "user")
       IN  /\ new.id = old.id /\ new.createdBy = old.createdBy
           /\ new.createdAt = old.createdAt
           /\ new.firstResponseAt = old.firstResponseAt
           /\ new.version \in {old.version, old.version + 1}
           /\ \A f \in (DOMAIN req[w].body \cap DOMAIN old) \ allowed :
                old[f] # req[w].body[f] => new[f] # req[w].body[f]

\* C32 witness: an agent's PATCH that named id, firstResponseAt, resolvedAt
\* and a deadline next to status resolved the ticket, which had its first
\* response, and wrote none of the four.
C32_Witness ==
  /\ Patched(1) /\ Has(req[1].body, "firstResponseAt")
  /\ snap[1].tickets[1].firstResponseAt = 0 /\ tickets[1].firstResponseAt = 0
  /\ snap[1].tickets[1].status = "open" /\ tickets[1].status = "resolved"
  /\ tickets[1].resolvedAt = 1 /\ tickets[1].id = 1
  /\ tickets[1].version = snap[1].tickets[1].version + 1

\* The PATCH answered in slot w, which carried an idempotency key, is sent
\* again by its actor.
PatchResent(w) ==
  /\ pc[w] = "done" /\ req[w].op = "patch" /\ req[w].key # NoKey
  /\ req'[w] = req[w]
  /\ <<pc'[w], snap'[w]>> # <<pc[w], snap[w]>>

\* C33 as stated: a PATCH with an idempotency key that is sent again after it
\* succeeded is answered with the first response, and is not executed again.
C33_PatchDeduplicated ==
  [][\A w \in Workers : PatchResent(w) /\ Succeeded(w) => Replayed(w)]_vars

\* C33 amended: a PATCH with an idempotency key is not deduplicated: sent
\* again by an authenticated actor it enters the handler again, no PATCH is
\* ever answered from the cache, and no step of a PATCH writes a record.
C33_PatchNotDeduplicated ==
  [][\A w \in Workers :
       /\ PatchResent(w) /\ req[w].actor \in Users =>
            pc'[w] = "patch" /\ idem' = idem
       /\ req'[w].op = "patch" /\ <<pc'[w], req'[w], resp'[w], snap'[w]>>
                                    # <<pc[w], req[w], resp[w], snap[w]>> =>
            /\ idem' = idem
            /\ pc'[w] = "done" => ~resp'[w].cached]_vars

\* C33 witness: the PATCH {tags: []} with key k1 was answered a second time,
\* by the handler, and has written its timeline entry a second time, while a
\* record is stored under k1.
C33_Witness ==
  /\ Patched(1) /\ req[1].key = "k1" /\ req[1].body = [tags |-> {}]
  /\ Recorded([req[1] EXCEPT !.op = "create"])
  /\ Len(timeline) = 3
  /\ \A j \in 2..3 : timeline[j].action = "updated" /\ timeline[j].field = "tags"

\* C34: a POST that carries an idempotency key and no valid credential is
\* answered 401.
C34_UnauthenticatedGets401 ==
  \A w \in Workers :
    pc[w] = "done" /\ Keyed(req[w]) /\ req[w].actor = NoAuth => resp[w].status = 401

\* C35: a keyed POST that follows the answered keyed POST which stored the
\* record of its key, and targets another endpoint or another ticket, is not
\* answered from the cache.
C35_ReplayOnlyForSameTarget ==
  [][\A w \in Workers :
       /\ pc[w] = "done" /\ Keyed(req[w]) /\ ~resp[w].cached
       /\ Keyed(req'[w]) /\ req'[w].key = req[w].key
       /\ req'[w].op # req[w].op \/ req'[w].tid # req[w].tid
       => ~(pc'[w] = "done" /\ resp'[w].cached)]_vars

\* C36: no step changes the status code or the body of a record that stays
\* in the store.
C36_RecordStable ==
  [][\A k \in DOMAIN idem \cap DOMAIN idem' :
       idem'[k].statusCode = idem[k].statusCode /\ idem'[k].body = idem[k].body]_vars
====
